---- MODULE Spec2Model ----
(***************************************************************************)
(* The points economy of the campus community API: the college reward     *)
(* pool (app/services/reward_pool.py, app/routers/pool.py), the ignite    *)
(* toggle (app/routers/engagement.py), peer rewards                       *)
(* (app/routers/rewards.py), the store with cart and checkout             *)
(* (app/routers/store.py) and the admin deletion of a user                *)
(* (app/routers/admin.py), over the tables of app/models/models.py.       *)
(*                                                                         *)
(* A request is served by a session (SessionLocal, autoflush off).  The    *)
(* ORM reads a row once, keeps the values it read, and at commit writes    *)
(* the attribute values computed from them (UPDATE .. SET col = value).    *)
(* A handler is therefore split at the places where another worker's       *)
(* commit can land: after its reads and before each of its commits.        *)
(* Several workers serve requests at once (core/database.py sizes the      *)
(* connection pool "per worker"), so sessions interleave at those places.  *)
(***************************************************************************)
EXTENDS Integers, Sequences, FiniteSets, TLC

\* The sessions (workers serving a request at the same time).
Sessions == {"s1", "s2"}
\* The single session of the sequential specifications.
SoloSessions == {"s1"}
Colleges == {"c1"}
\* u1 and u2 are rows of the users table; u3 is the id of no user.
UserIds == {"u1", "u2", "u3"}
PostIds == {1, 2}
ProductIds == {"g1", "g2"}
NoUser == "none"

\* Bounds of the model: how many rows the ledgers and tables may grow to.
MaxPoolTxns == 3
MaxPointTxns == 6
MaxOrders == 2
MaxRewards == 2
\* A cart quantity is not driven below -MaxReturned by repeated negative requests.
MaxReturned == 1

VARIABLES
    users,               \* ids of the rows of the users table
    posts,               \* Post rows: post id -> [author_id, ignite_count]
    reward_points,       \* RewardPoint rows: user id -> sequence of total_points
    point_transactions,  \* PointTransaction rows, in insertion order
    rewards,             \* Reward rows, in insertion order
    post_ignites,        \* PostIgnite rows: set of [id, post_id, giver_id, receiver_id]
    ignite_seq,          \* the serial of post_ignites.id
    pools,               \* CollegeRewardPool rows: college id -> row
    pool_transactions,   \* PoolTransaction rows, in insertion order
    products,            \* Product rows: product id -> row
    carts,               \* Cart and CartItem rows: user id -> (product id -> quantity)
    orders,              \* Order rows with their OrderItems, in insertion order
    pc,                  \* per session: where the handler it runs stands
    local,               \* per session: the handler's arguments and the rows it read
    last                 \* the request that finished last: its result, and what it names

ledger_vars == <<reward_points, point_transactions, rewards>>
ignite_vars == <<post_ignites, ignite_seq>>
pool_vars == <<pools, pool_transactions>>
store_vars == <<products, carts, orders>>
vars == <<users, posts, reward_points, point_transactions, rewards, post_ignites,
          ignite_seq, pools, pool_transactions, products, carts, orders, pc, local, last>>

Idle == [op |-> "none"]
NoDetail == [kind |-> "none"]
NoResponse == [op |-> "none", result |-> "none", detail |-> NoDetail]

\* The response of a finished request.
Response(op, result) == [op |-> op, result |-> result, detail |-> NoDetail]

\* The handler of session s returns (or raises) with the given result.
Finish(s, op, result) ==
    /\ pc' = [pc EXCEPT ![s] = "idle"]
    /\ local' = [local EXCEPT ![s] = Idle]
    /\ last' = Response(op, result)

\* The handler of session s returns with a result and what the response names.
FinishWith(s, op, result, detail) ==
    /\ pc' = [pc EXCEPT ![s] = "idle"]
    /\ local' = [local EXCEPT ![s] = Idle]
    /\ last' = [op |-> op, result |-> result, detail |-> detail]

\* The handler of session s goes on to its next step.
Goto(s, label, loc) ==
    /\ pc' = [pc EXCEPT ![s] = label]
    /\ local' = [local EXCEPT ![s] = loc]
    /\ UNCHANGED last

RECURSIVE SumSeq(_)
\* The sum of a sequence of integers.
SumSeq(seq) == IF seq = <<>> THEN 0 ELSE Head(seq) + SumSeq(Tail(seq))

(***************************************************************************)
(* models.py                                                               *)
(***************************************************************************)

\* The allocation read in place of the balance.
available_balance_of_allocation(pool) == pool.initial_allocation - pool.reserved_balance

\* CollegeRewardPool.available_balance
available_balance(pool) == pool.total_balance - pool.reserved_balance

\* CollegeRewardPool.is_low_balance
is_low_balance(pool) == available_balance(pool) < pool.low_balance_threshold

\* RewardPoint rows of a user: query(RewardPoint).filter(user_id == u).first()
\* returns one of them (no ORDER BY), or None when there is none.  0 stands for None.
first_reward_point_rows(u) ==
    IF reward_points[u] = <<>> THEN {0} ELSE 1..Len(reward_points[u])

\* total_points as the ORM object holds it after the query (a fresh row holds 0).
read_total_points(u, row) == IF row = 0 THEN 0 ELSE reward_points[u][row]

\* Flush of a RewardPoint object: INSERT of a new row, or UPDATE of the row read.
write_total_points(rp, u, row, value) ==
    IF row = 0 THEN [rp EXCEPT ![u] = Append(@, value)]
    ELSE [rp EXCEPT ![u][row] = value]

\* A PointTransaction row.
PointTransaction(u, type, points, balance_after, ref_type, ref_id) ==
    [user_id |-> u, transaction_type |-> type, points |-> points,
     balance_after |-> balance_after, reference_type |-> ref_type,
     reference_id |-> ref_id]

\* A PoolTransaction row.
PoolTransaction(c, type, amount, before, after, reason, ref_type, beneficiary) ==
    [college_id |-> c, transaction_type |-> type, amount |-> amount,
     balance_before |-> before, balance_after |-> after, reason |-> reason,
     reference_type |-> ref_type, beneficiary_user_id |-> beneficiary]

(***************************************************************************)
(* services/reward_pool.py                                                 *)
(***************************************************************************)

\* The pool row get_or_create_pool inserts.
NewPool ==
    [total_balance |-> 10000, reserved_balance |-> 0, initial_allocation |-> 10000,
     lifetime_credits |-> 10000, lifetime_debits |-> 0, low_balance_threshold |-> 1000]

\* The transaction get_or_create_pool logs with the new pool.
InitialCredit(c) ==
    PoolTransaction(c, "CREDIT", 10000, 0, 10000, "manual_topup", "system", NoUser)

\* The balance check off by one.
check_balance_off_by_one(pool, required_amount) ==
    pool.total_balance - pool.reserved_balance >= required_amount - 1

\* RewardPoolService.check_balance
check_balance(pool, required_amount) == available_balance(pool) >= required_amount

\* The pool's balance after debit_pool's "pool.total_balance -= amount".
debited_balance(pool, amount) == pool.total_balance - amount

\* The balance set to the amount instead of raised by it.
credited_balance_overwritten(pool, amount) == amount

\* The pool's balance after credit_pool's "pool.total_balance += amount".
credited_balance(pool, amount) == pool.total_balance + amount

\* The user's balance after give_reward_from_pool's "total_points += amount".
rewarded_points(total_points, amount) == total_points + amount

\* routers/pool.py credit_pool: the checks before the service is called.
credit_request_rejected(amount) == amount <= 0 \/ amount > 100000

\* First step of every handler that uses the pool: get_or_create_pool's query.
\* op is get_pool_balance, credit_pool, debit_pool or give_reward_from_pool.
get_or_create_pool_query(s, op, c, amount, u) ==
    /\ pc[s] = "idle"
    /\ op # "get_pool_balance" => Len(pool_transactions) < MaxPoolTxns
    /\ op = "give_reward_from_pool" => Len(point_transactions) < MaxPointTxns
    /\ LET args == [op |-> op, college_id |-> c, amount |-> amount, user_id |-> u,
                    created |-> FALSE] IN
       IF op = "credit_pool" /\ credit_request_rejected(amount)
       THEN Finish(s, op, "bad_request")
       ELSE IF c \notin DOMAIN pools
       THEN Goto(s, "create_pool", args)
       ELSE IF op = "get_pool_balance"
       THEN Finish(s, op, "ok")
       ELSE Goto(s, "pool_loaded", args @@ [pool |-> pools[c]])
    /\ UNCHANGED <<users, posts, ledger_vars, ignite_vars, pool_vars, store_vars>>

\* The INSERT of the pool without the unique college_id: a session that saw no pool
\* inserts its own pool and initial credit whatever has been created since.
get_or_create_pool_insert_unconstrained(s) ==
    /\ pc[s] = "create_pool"
    /\ LET a == local[s]
           c == a.college_id IN
       /\ pools' = (c :> NewPool) @@ [d \in DOMAIN pools \ {c} |-> pools[d]]
       /\ pool_transactions' = Append(pool_transactions, InitialCredit(c))
       /\ IF a.op = "get_pool_balance"
          THEN Finish(s, a.op, "ok")
          ELSE Goto(s, "pool_loaded", [a EXCEPT !.created = TRUE] @@ [pool |-> NewPool])
    /\ UNCHANGED <<users, posts, ledger_vars, ignite_vars, store_vars>>

\* get_or_create_pool found no pool: INSERT the pool and its initial credit, commit,
\* refresh.  The unique college_id rejects the INSERT when another session has
\* created the pool since the query.
get_or_create_pool_insert(s) ==
    /\ pc[s] = "create_pool"
    /\ LET a == local[s]
           c == a.college_id IN
       IF c \in DOMAIN pools
       THEN /\ Finish(s, a.op, "error")
            /\ UNCHANGED pool_vars
       ELSE /\ pools' = (c :> NewPool) @@ pools
            /\ pool_transactions' = Append(pool_transactions, InitialCredit(c))
            /\ IF a.op = "get_pool_balance"
               THEN Finish(s, a.op, "ok")
               ELSE Goto(s, "pool_loaded",
                         [a EXCEPT !.created = TRUE] @@ [pool |-> NewPool])
    /\ UNCHANGED <<users, posts, ledger_vars, ignite_vars, store_vars>>

\* credit_pool after get_or_create_pool: add to the balance read, log, commit.
credit_pool(s) ==
    /\ pc[s] = "pool_loaded"
    /\ local[s].op = "credit_pool"
    /\ LET a == local[s]
           c == a.college_id
           after == credited_balance(a.pool, a.amount) IN
       /\ pools' = [pools EXCEPT ![c].total_balance = after]
       /\ pool_transactions' = Append(pool_transactions,
              PoolTransaction(c, "CREDIT", a.amount, a.pool.total_balance, after,
                              "manual_topup", "none", NoUser))
       /\ Finish(s, "credit_pool", "ok")
    /\ UNCHANGED <<users, posts, ledger_vars, ignite_vars, store_vars>>

\* debit_pool after get_or_create_pool, called on its own or as the first step of
\* give_reward_from_pool: check the balance read, deduct, log, commit.  The commit
\* fails on the foreign key pool_transactions.beneficiary_user_id when the
\* beneficiary is no user; give_reward_from_pool then rolls back and raises.
\* After the commit give_reward_from_pool reads the user's RewardPoint.
debit_pool(s) ==
    /\ pc[s] = "pool_loaded"
    /\ local[s].op \in {"debit_pool", "give_reward_from_pool"}
    /\ LET a == local[s]
           c == a.college_id
           after == debited_balance(a.pool, a.amount)
           beneficiary == IF a.op = "debit_pool" THEN NoUser ELSE a.user_id
           txn == PoolTransaction(c, "DEBIT", a.amount, a.pool.total_balance, after,
                                  "post_reward", "reward", beneficiary) IN
       IF ~check_balance(a.pool, a.amount)
       THEN /\ Finish(s, a.op, "insufficient_pool_balance")
            /\ UNCHANGED pool_vars
       ELSE IF beneficiary # NoUser /\ beneficiary \notin users
       THEN /\ Finish(s, a.op, "error")
            /\ UNCHANGED pool_vars
       ELSE /\ pools' = [pools EXCEPT ![c].total_balance = after]
            /\ pool_transactions' = Append(pool_transactions, txn)
            /\ IF a.op = "debit_pool"
               THEN Finish(s, a.op, "ok")
               ELSE \E row \in first_reward_point_rows(a.user_id) :
                      Goto(s, "credit_user",
                           a @@ [pool_txn |-> txn, row |-> row,
                                 total_points |-> read_total_points(a.user_id, row)])
    /\ UNCHANGED <<users, posts, ledger_vars, ignite_vars, store_vars>>

\* give_reward_from_pool after debit_pool has committed: credit the user the DEBIT
\* row names, log, commit.
give_reward_from_pool_credit(s) ==
    /\ pc[s] = "credit_user"
    /\ LET a == local[s]
           u == a.user_id
           after == rewarded_points(a.total_points, a.amount) IN
       /\ reward_points' = write_total_points(reward_points, u, a.row, after)
       /\ point_transactions' = Append(point_transactions,
              PointTransaction(u, "EARNED", a.amount, after, "reward", 0))
       /\ UNCHANGED rewards
       /\ Finish(s, a.op, "ok")
    /\ UNCHANGED <<users, posts, ignite_vars, pool_vars, store_vars>>

(***************************************************************************)
(* routers/engagement.py                                                   *)
(***************************************************************************)

\* The PostIgnite rows of a giver on a post: query(PostIgnite).filter(..).first()
\* returns one of them, or None (0) when there is none.
existing_ignites(p, u) ==
    LET rows == {r \in post_ignites : r.post_id = p /\ r.giver_id = u} IN
    IF rows = {} THEN {0} ELSE {r.id : r \in rows}

\* The path and the caller of a toggle_ignite request.
toggle_request(p, u) == [post_id |-> p, user_id |-> u]

\* The self-ignite check left out.
is_own_post_unchecked(p, u) == FALSE

\* toggle_ignite's check "post.author_id == current_user.id".
is_own_post(p, u) == posts[p].author_id = u

\* The points check off by one.
lacks_points_to_ignite_below_zero(total_points) == total_points < 0

\* toggle_ignite's check "user_points.total_points < 1".
lacks_points_to_ignite(total_points) == total_points < 1

\* The giver's balance after igniting: "user_points.total_points -= 1".
ignite_giver_points(total_points) == total_points - 1

\* The author not credited.
ignite_author_points_uncredited(total_points) == total_points

\* The author's balance after an ignite: "author_points.total_points += 1".
ignite_author_points(total_points) == total_points + 1

\* The refund forgotten.
unignite_giver_points_unrefunded(total_points) == total_points

\* The giver's balance after un-igniting: "user_points.total_points += 1".
unignite_giver_points(total_points) == total_points + 1

\* The author's balance after an un-ignite without the clamp at 0.
unignite_author_points_unclamped(total_points) == total_points - 1

\* The author's balance after an un-ignite: "max(0, author_points.total_points - 1)".
unignite_author_points(total_points) ==
    IF total_points - 1 > 0 THEN total_points - 1 ELSE 0

\* Post.ignite_count is a denormalized counter the handlers only read back after
\* their commit (db.refresh(post)): the database keeps it, one up for every
\* PostIgnite row inserted and one down for every PostIgnite row deleted, in the
\* transaction that inserts or deletes the row.
ignite_count_after_insert(ignite_count) == ignite_count + 1
ignite_count_after_delete(ignite_count, deleted) == ignite_count - deleted

\* toggle_ignite up to its try blocks: the post, the self-ignite check, the
\* existing ignite, and inside the try the two RewardPoint rows and the points check.
toggle_ignite_query(s, p, u) ==
    /\ pc[s] = "idle"
    /\ u \in users
    /\ Len(point_transactions) + 2 <= MaxPointTxns
    /\ IF p \notin DOMAIN posts
       THEN FinishWith(s, "toggle_ignite", "post_not_found", toggle_request(p, u))
       ELSE IF is_own_post(p, u)
       THEN FinishWith(s, "toggle_ignite", "self_ignite", toggle_request(p, u))
       ELSE \E ignite \in existing_ignites(p, u),
               row \in first_reward_point_rows(u),
               author_row \in first_reward_point_rows(posts[p].author_id) :
              LET author == posts[p].author_id
                  a == [op |-> "toggle_ignite", post_id |-> p, user_id |-> u,
                        author_id |-> author, ignite |-> ignite,
                        ignite_count |-> posts[p].ignite_count,
                        row |-> row, total_points |-> read_total_points(u, row),
                        author_row |-> author_row,
                        author_points |-> read_total_points(author, author_row)] IN
              IF ignite # 0
              THEN Goto(s, "unignite_commit", a)
              ELSE IF lacks_points_to_ignite(a.total_points)
              THEN FinishWith(s, "toggle_ignite", "insufficient_points",
                              toggle_request(p, u))
              ELSE Goto(s, "ignite_commit", a)
    /\ UNCHANGED <<users, posts, ledger_vars, ignite_vars, pool_vars, store_vars>>

\* The commit of a toggle_ignite fails on a foreign key when the giver, the author
\* or the post has been deleted since the handler read them.
ignite_commit_fails(a) ==
    \/ a.user_id \notin users
    \/ a.author_id \notin users
    \/ a.post_id \notin DOMAIN posts

\* What a finished toggle_ignite names: the post, the giver, and the values the
\* handler read before it changed them.
toggle_detail(a) ==
    [post_id |-> a.post_id, user_id |-> a.user_id, author_id |-> a.author_id,
     total_points |-> a.total_points, author_points |-> a.author_points,
     ignite_count |-> a.ignite_count]

\* toggle_ignite, the ignite branch: transfer the point, log both sides, insert the
\* PostIgnite row, commit; the insert raises the post's ignite_count.
toggle_ignite_ignite(s) ==
    /\ pc[s] = "ignite_commit"
    /\ LET a == local[s]
           giver_after == ignite_giver_points(a.total_points)
           author_after == ignite_author_points(a.author_points) IN
       IF ignite_commit_fails(a)
       THEN /\ FinishWith(s, "toggle_ignite", "error",
                          toggle_request(a.post_id, a.user_id))
            /\ UNCHANGED <<posts, ledger_vars, ignite_vars>>
       ELSE /\ reward_points' =
                  write_total_points(
                      write_total_points(reward_points, a.user_id, a.row, giver_after),
                      a.author_id, a.author_row, author_after)
            /\ posts' = [posts EXCEPT ![a.post_id].ignite_count =
                             ignite_count_after_insert(@)]
            /\ point_transactions' = point_transactions \o
                  << PointTransaction(a.user_id, "SPENT", -1, giver_after,
                                      "ignite", a.post_id),
                     PointTransaction(a.author_id, "EARNED", 1, author_after,
                                      "ignite", a.post_id) >>
            /\ ignite_seq' = ignite_seq + 1
            /\ post_ignites' = post_ignites \cup
                  {[id |-> ignite_seq + 1, post_id |-> a.post_id,
                    giver_id |-> a.user_id, receiver_id |-> a.author_id]}
            /\ UNCHANGED rewards
            /\ FinishWith(s, "toggle_ignite", "ignited", toggle_detail(a))
    /\ UNCHANGED <<users, pool_vars, store_vars>>

\* toggle_ignite, the un-ignite branch: refund the giver, deduct from the author
\* (not below 0), log both sides, delete the PostIgnite row read, commit.  A row
\* already deleted by another session only draws a warning.
toggle_ignite_unignite(s) ==
    /\ pc[s] = "unignite_commit"
    /\ LET a == local[s]
           giver_after == unignite_giver_points(a.total_points)
           author_after == unignite_author_points(a.author_points) IN
       IF ignite_commit_fails(a)
       THEN /\ FinishWith(s, "toggle_ignite", "error",
                          toggle_request(a.post_id, a.user_id))
            /\ UNCHANGED <<posts, ledger_vars, ignite_vars>>
       ELSE /\ reward_points' =
                  write_total_points(
                      write_total_points(reward_points, a.user_id, a.row, giver_after),
                      a.author_id, a.author_row, author_after)
            /\ posts' = [posts EXCEPT ![a.post_id].ignite_count =
                             ignite_count_after_delete(@,
                                 Cardinality({r \in post_ignites : r.id = a.ignite}))]
            /\ point_transactions' = point_transactions \o
                  << PointTransaction(a.user_id, "REFUNDED", 1, giver_after,
                                      "ignite", a.post_id),
                     PointTransaction(a.author_id, "DEDUCTED", -1, author_after,
                                      "ignite", a.post_id) >>
            /\ post_ignites' = {r \in post_ignites : r.id # a.ignite}
            /\ UNCHANGED <<rewards, ignite_seq>>
            /\ FinishWith(s, "toggle_ignite", "removed", toggle_detail(a))
    /\ UNCHANGED <<users, pool_vars, store_vars>>

(***************************************************************************)
(* routers/rewards.py                                                      *)
(***************************************************************************)

\* give_reward's check of the points of a peer reward.
reward_points_rejected(points) == points < 1 \/ points > 100

\* give_reward: a peer reward; the receiver's RewardPoint is raised (or created)
\* in the commit that inserts the Reward row.
give_reward(s, giver, receiver, points) ==
    /\ pc[s] = "idle"
    /\ giver \in users
    /\ Len(rewards) < MaxRewards
    /\ IF receiver \notin users
       THEN /\ Finish(s, "give_reward", "receiver_not_found")
            /\ UNCHANGED ledger_vars
       ELSE IF receiver = giver
       THEN /\ Finish(s, "give_reward", "self_reward")
            /\ UNCHANGED ledger_vars
       ELSE IF reward_points_rejected(points)
       THEN /\ Finish(s, "give_reward", "bad_request")
            /\ UNCHANGED ledger_vars
       ELSE \E row \in first_reward_point_rows(receiver) :
              /\ rewards' = Append(rewards,
                     [giver_id |-> giver, receiver_id |-> receiver, points |-> points])
              /\ reward_points' = write_total_points(reward_points, receiver, row,
                     read_total_points(receiver, row) + points)
              /\ UNCHANGED point_transactions
              /\ Finish(s, "give_reward", "ok")
    /\ UNCHANGED <<users, posts, ignite_vars, pool_vars, store_vars>>

(***************************************************************************)
(* routers/store.py                                                        *)
(***************************************************************************)

\* create_product: the row is built from the request as it comes (ProductCreate
\* constrains no field); status takes the column default.
create_product(s, p, points_required, stock_quantity, max_quantity_per_user) ==
    /\ pc[s] = "idle"
    /\ p \notin DOMAIN products
    /\ products' = (p :> [points_required |-> points_required,
                          stock_quantity |-> stock_quantity,
                          max_quantity_per_user |-> max_quantity_per_user,
                          status |-> "ACTIVE"]) @@ products
    /\ Finish(s, "create_product", "ok")
    /\ UNCHANGED <<users, posts, ledger_vars, ignite_vars, pool_vars, carts, orders>>

\* update_product's loop "setattr(product, field, value)" over the fields the
\* request sets (ProductUpdate constrains no value).
updated_product(product, update_data) ==
    [f \in DOMAIN product |->
        IF f \in DOMAIN update_data THEN update_data[f] ELSE product[f]]

\* update_product
update_product(s, p, update_data) ==
    /\ pc[s] = "idle"
    /\ IF p \notin DOMAIN products
       THEN /\ Finish(s, "update_product", "not_found")
            /\ UNCHANGED products
       ELSE /\ products' = [products EXCEPT ![p] = updated_product(@, update_data)]
            /\ Finish(s, "update_product", "ok")
    /\ UNCHANGED <<users, posts, ledger_vars, ignite_vars, pool_vars, carts, orders>>

\* get_or_create_cart: the carts table after it (the new Cart is committed at once).
with_cart(u) == IF u \in DOMAIN carts THEN carts ELSE (u :> <<>>) @@ carts

\* add_to_cart's checks of the request without the look at the stock.
add_to_cart_product_check_without_stock(p, quantity) ==
    IF p \notin DOMAIN products \/ products[p].status # "ACTIVE" THEN "not_found"
    ELSE IF quantity > products[p].max_quantity_per_user THEN "max_quantity"
    ELSE "ok"

\* add_to_cart's checks of the request against the product, before the cart is
\* fetched: the error raised, or "ok".
add_to_cart_product_check(p, quantity) ==
    IF p \notin DOMAIN products \/ products[p].status # "ACTIVE" THEN "not_found"
    ELSE IF products[p].stock_quantity < quantity THEN "insufficient_stock"
    ELSE IF quantity > products[p].max_quantity_per_user THEN "max_quantity"
    ELSE "ok"

\* add_to_cart's checks of the summed quantity when the product is in the cart.
add_to_cart_total_check(p, new_quantity) ==
    IF new_quantity > products[p].max_quantity_per_user THEN "max_quantity"
    ELSE IF new_quantity > products[p].stock_quantity THEN "insufficient_stock"
    ELSE "ok"

\* add_to_cart
add_to_cart(s, u, p, quantity) ==
    /\ pc[s] = "idle"
    /\ u \in users
    /\ LET first_check == add_to_cart_product_check(p, quantity) IN
       IF first_check # "ok"
       THEN /\ Finish(s, "add_to_cart", first_check)
            /\ UNCHANGED carts
       ELSE LET cart == with_cart(u) IN
            IF p \in DOMAIN cart[u]
            THEN LET new_quantity == cart[u][p] + quantity
                     second_check == add_to_cart_total_check(p, new_quantity) IN
                 IF second_check # "ok"
                 THEN /\ Finish(s, "add_to_cart", second_check)
                      /\ carts' = cart
                 ELSE /\ new_quantity >= 0 - MaxReturned
                      /\ carts' = [cart EXCEPT ![u][p] = new_quantity]
                      /\ Finish(s, "add_to_cart", "ok")
            ELSE /\ carts' = [cart EXCEPT ![u] = (p :> quantity) @@ @]
                 /\ Finish(s, "add_to_cart", "ok")
    /\ UNCHANGED <<users, posts, ledger_vars, ignite_vars, pool_vars, products, orders>>

\* A cart without the item of product p.
without_item(items, p) == [q \in DOMAIN items \ {p} |-> items[q]]

\* update_cart_item; the item is named by its product.
update_cart_item(s, u, p, quantity) ==
    /\ pc[s] = "idle"
    /\ u \in users
    /\ IF u \notin DOMAIN carts \/ p \notin DOMAIN carts[u] \/ p \notin DOMAIN products
       THEN /\ Finish(s, "update_cart_item", "not_found")
            /\ UNCHANGED carts
       ELSE IF quantity <= 0
       THEN /\ carts' = [carts EXCEPT ![u] = without_item(@, p)]
            /\ Finish(s, "update_cart_item", "ok")
       ELSE IF quantity > products[p].stock_quantity
       THEN /\ Finish(s, "update_cart_item", "insufficient_stock")
            /\ UNCHANGED carts
       ELSE IF quantity > products[p].max_quantity_per_user
       THEN /\ Finish(s, "update_cart_item", "max_quantity")
            /\ UNCHANGED carts
       ELSE /\ carts' = [carts EXCEPT ![u][p] = quantity]
            /\ Finish(s, "update_cart_item", "ok")
    /\ UNCHANGED <<users, posts, ledger_vars, ignite_vars, pool_vars, products, orders>>

\* remove_from_cart; the item is named by its product.
remove_from_cart(s, u, p) ==
    /\ pc[s] = "idle"
    /\ u \in users
    /\ IF u \notin DOMAIN carts \/ p \notin DOMAIN carts[u]
       THEN /\ Finish(s, "remove_from_cart", "not_found")
            /\ UNCHANGED carts
       ELSE /\ carts' = [carts EXCEPT ![u] = without_item(@, p)]
            /\ Finish(s, "remove_from_cart", "ok")
    /\ UNCHANGED <<users, posts, ledger_vars, ignite_vars, pool_vars, products, orders>>

\* clear_cart
clear_cart(s, u) ==
    /\ pc[s] = "idle"
    /\ u \in users
    /\ carts' = IF u \in DOMAIN carts THEN [carts EXCEPT ![u] = <<>>] ELSE carts
    /\ Finish(s, "clear_cart", "ok")
    /\ UNCHANGED <<users, posts, ledger_vars, ignite_vars, pool_vars, products, orders>>

\* What a checkout that is refused names: the user whose cart it is.
checkout_request(u) == [user_id |-> u]

\* checkout's validation of an item without the look at the product's status.
checkout_item_check_of_stock_only(p, quantity) ==
    IF p \notin DOMAIN products THEN "product_not_found"
    ELSE IF products[p].stock_quantity < quantity THEN "insufficient_stock"
    ELSE "ok"

\* checkout's validation of one cart item against its product: the error raised,
\* or "ok".
checkout_item_check(p, quantity) ==
    IF p \notin DOMAIN products THEN "product_not_found"
    ELSE IF products[p].status # "ACTIVE" THEN "product_unavailable"
    ELSE IF products[p].stock_quantity < quantity THEN "insufficient_stock"
    ELSE "ok"

\* The total of an item taken for the price of one unit.
item_total_of_one(points_required, quantity) == points_required

\* checkout's "item_total = product.points_required * item.quantity".
item_total(points_required, quantity) == points_required * quantity

RECURSIVE cart_total(_, _)
\* checkout's total_points: the sum of item_total over the order items.
cart_total(items, ps) ==
    IF ps = {} THEN 0
    ELSE LET p == CHOOSE q \in ps : TRUE IN
         items[p].total_points + cart_total(items, ps \ {p})

\* checkout's order_items_data: per cart item the quantity, the price and the stock
\* of the product as read.
order_items_data(items) ==
    [p \in DOMAIN items |->
        [quantity |-> items[p],
         points_per_item |-> products[p].points_required,
         total_points |-> item_total(products[p].points_required, items[p]),
         stock_read |-> products[p].stock_quantity]]

\* checkout's balance check "not user_points or total_points < total".
lacks_points_for(row, total_points, total) == row = 0 \/ total_points < total

\* The stock left as it was read.
stock_after_undiminished(item) == item.stock_read

\* The stock written for an order item: "product.stock_quantity -= quantity".
stock_after(item) == item.stock_read - item.quantity

\* The user's balance after checkout: "user_points.total_points -= total_points".
points_after_checkout(total_points, total) == total_points - total

\* checkout with the cart cleared before the balance check instead of after the
\* order is built: a checkout refused for lack of points then loses its cart.
checkout_query_clears_first(s, u) ==
    /\ pc[s] = "idle"
    /\ u \in users
    /\ Len(orders) < MaxOrders
    /\ Len(point_transactions) < MaxPointTxns
    /\ IF u \notin DOMAIN carts
       THEN FinishWith(s, "checkout", "cart_not_found", checkout_request(u)) /\ UNCHANGED carts
       ELSE IF DOMAIN carts[u] = {}
       THEN FinishWith(s, "checkout", "empty_cart", checkout_request(u)) /\ UNCHANGED carts
       ELSE LET items == carts[u]
                failing == {p \in DOMAIN items : checkout_item_check(p, items[p]) # "ok"} IN
            IF failing # {}
            THEN /\ \E p \in failing :
                      FinishWith(s, "checkout", checkout_item_check(p, items[p]),
                                 [product_id |-> p] @@ checkout_request(u))
                 /\ UNCHANGED carts
            ELSE \E row \in first_reward_point_rows(u) :
                   LET data == order_items_data(items)
                       total == cart_total(data, DOMAIN data)
                       total_points == read_total_points(u, row) IN
                   IF lacks_points_for(row, total_points, total)
                   THEN /\ FinishWith(s, "checkout", "insufficient_points",
                                   checkout_request(u))
                        /\ carts' = [carts EXCEPT ![u] = <<>>]
                   ELSE /\ Goto(s, "checkout_commit",
                                [op |-> "checkout", user_id |-> u, items |-> data,
                                 total |-> total, row |-> row,
                                 total_points |-> total_points])
                        /\ UNCHANGED carts
    /\ UNCHANGED <<users, posts, ledger_vars, ignite_vars, pool_vars, products, orders>>

\* checkout up to the creation of the order: the cart, its items, the validation of
\* every item (the items come in no stated order, so any failing item may be the one
\* reported) and the balance check.
checkout_query(s, u) ==
    /\ pc[s] = "idle"
    /\ u \in users
    /\ Len(orders) < MaxOrders
    /\ Len(point_transactions) < MaxPointTxns
    /\ IF u \notin DOMAIN carts
       THEN FinishWith(s, "checkout", "cart_not_found", checkout_request(u))
       ELSE IF DOMAIN carts[u] = {}
       THEN FinishWith(s, "checkout", "empty_cart", checkout_request(u))
       ELSE LET items == carts[u]
                failing == {p \in DOMAIN items : checkout_item_check(p, items[p]) # "ok"} IN
            IF failing # {}
            THEN \E p \in failing :
                   FinishWith(s, "checkout", checkout_item_check(p, items[p]),
                              [product_id |-> p] @@ checkout_request(u))
            ELSE \E row \in first_reward_point_rows(u) :
                   LET data == order_items_data(items)
                       total == cart_total(data, DOMAIN data)
                       total_points == read_total_points(u, row) IN
                   IF lacks_points_for(row, total_points, total)
                   THEN FinishWith(s, "checkout", "insufficient_points",
                                   checkout_request(u))
                   ELSE Goto(s, "checkout_commit",
                             [op |-> "checkout", user_id |-> u, items |-> data,
                              total |-> total, row |-> row,
                              total_points |-> total_points])
    /\ UNCHANGED <<users, posts, ledger_vars, ignite_vars, pool_vars, store_vars>>

\* checkout from "Create order" to the commit: the Order and its OrderItems, the
\* stock of every product, the user's points, the SPENT transaction, the cart.
checkout_commit(s) ==
    /\ pc[s] = "checkout_commit"
    /\ LET a == local[s]
           u == a.user_id
           after == points_after_checkout(a.total_points, a.total) IN
       IF u \notin users
       THEN /\ Finish(s, "checkout", "error")
            /\ UNCHANGED <<ledger_vars, store_vars>>
       ELSE /\ orders' = Append(orders,
                   [user_id |-> u, total_points |-> a.total,
                    total_items |-> Cardinality(DOMAIN a.items), status |-> "PENDING",
                    items |-> [p \in DOMAIN a.items |->
                                  [quantity |-> a.items[p].quantity,
                                   points_per_item |-> a.items[p].points_per_item,
                                   total_points |-> a.items[p].total_points]]])
            /\ products' = [p \in DOMAIN products |->
                   IF p \in DOMAIN a.items
                   THEN [products[p] EXCEPT !.stock_quantity = stock_after(a.items[p])]
                   ELSE products[p]]
            /\ reward_points' = write_total_points(reward_points, u, a.row, after)
            /\ point_transactions' = Append(point_transactions,
                   PointTransaction(u, "SPENT", 0 - a.total, after, "order",
                                    Len(orders) + 1))
            /\ carts' = [carts EXCEPT ![u] = <<>>]
            /\ UNCHANGED rewards
            /\ Finish(s, "checkout", "ok")
    /\ UNCHANGED <<users, posts, ignite_vars, pool_vars>>

\* The values of OrderStatus.
OrderStatus == {"PENDING", "CONFIRMED", "PROCESSING", "READY_FOR_PICKUP",
                "COMPLETED", "CANCELLED", "REFUNDED"}

\* update_order_status: the status is set to whatever the request names.
update_order_status(s, order_id, status) ==
    /\ pc[s] = "idle"
    /\ IF order_id \notin 1..Len(orders)
       THEN /\ Finish(s, "update_order_status", "not_found")
            /\ UNCHANGED orders
       ELSE /\ orders' = [orders EXCEPT ![order_id].status = status]
            /\ Finish(s, "update_order_status", "ok")
    /\ UNCHANGED <<users, posts, ledger_vars, ignite_vars, pool_vars, products, carts>>

(***************************************************************************)
(* routers/admin.py                                                        *)
(***************************************************************************)

\* delete_user's total_data: the posts, rewards and orders of the user.
total_data(u) ==
    Cardinality({p \in DOMAIN posts : posts[p].author_id = u})
  + Len(SelectSeq(rewards, LAMBDA r : r.giver_id = u))
  + Len(SelectSeq(rewards, LAMBDA r : r.receiver_id = u))
  + Len(SelectSeq(orders, LAMBDA o : o.user_id = u))

\* The foreign keys that make delete_user's statements fail: cart_items.cart_id,
\* order_items.order_id and pool_transactions.beneficiary_user_id have no ON DELETE.
delete_user_blocked(u) ==
    \/ u \in DOMAIN carts /\ DOMAIN carts[u] # {}
    \/ \E i \in 1..Len(orders) : orders[i].user_id = u
    \/ \E i \in 1..Len(pool_transactions) : pool_transactions[i].beneficiary_user_id = u

\* delete_user: the rows of the user are deleted table by table, then the user;
\* post_ignites rows go with their post, giver or receiver (ON DELETE CASCADE).
delete_user(s, u, force) ==
    /\ pc[s] = "idle"
    /\ IF u \notin users
       THEN /\ Finish(s, "delete_user", "not_found")
            /\ UNCHANGED <<users, posts, ledger_vars, ignite_vars, carts>>
       ELSE IF total_data(u) > 0 /\ ~force
       THEN /\ Finish(s, "delete_user", "bad_request")
            /\ UNCHANGED <<users, posts, ledger_vars, ignite_vars, carts>>
       ELSE IF delete_user_blocked(u)
       THEN /\ Finish(s, "delete_user", "error")
            /\ UNCHANGED <<users, posts, ledger_vars, ignite_vars, carts>>
       ELSE LET kept_posts == {p \in DOMAIN posts : posts[p].author_id # u}
                gone(p) == {r \in post_ignites : r.post_id = p /\ r.giver_id = u} IN
            /\ reward_points' = [reward_points EXCEPT ![u] = <<>>]
            /\ point_transactions' =
                   SelectSeq(point_transactions, LAMBDA t : t.user_id # u)
            /\ carts' = [v \in DOMAIN carts \ {u} |-> carts[v]]
            /\ posts' = [p \in kept_posts |->
                          [posts[p] EXCEPT !.ignite_count =
                              ignite_count_after_delete(@, Cardinality(gone(p)))]]
            /\ rewards' =
                   SelectSeq(rewards, LAMBDA r : r.giver_id # u /\ r.receiver_id # u)
            /\ post_ignites' = {r \in post_ignites :
                   r.giver_id # u /\ r.receiver_id # u /\ r.post_id \in kept_posts}
            /\ users' = users \ {u}
            /\ UNCHANGED ignite_seq
            /\ Finish(s, "delete_user", "ok")
    /\ UNCHANGED <<pool_vars, products, orders>>

(***************************************************************************)
(* Initial state and specifications                                        *)
(***************************************************************************)

\* A database with two users, each the author of one post, no RewardPoint row, no
\* pool and an empty store; every session is between requests.
Init ==
    /\ users = {"u1", "u2"}
    /\ posts = (1 :> [author_id |-> "u1", ignite_count |-> 0])
             @@ (2 :> [author_id |-> "u2", ignite_count |-> 0])
    /\ reward_points = [u \in UserIds |-> <<>>]
    /\ point_transactions = <<>>
    /\ rewards = <<>>
    /\ post_ignites = {}
    /\ ignite_seq = 0
    /\ pools = <<>>
    /\ pool_transactions = <<>>
    /\ products = <<>>
    /\ carts = <<>>
    /\ orders = <<>>
    /\ pc = [s \in Sessions |-> "idle"]
    /\ local = [s \in Sessions |-> Idle]
    /\ last = NoResponse

\* Amounts of pool requests: below, at and above the initial allocation.
PoolAmounts == {6000, 10000, 10001}
\* Amounts of credit_pool requests: one the router refuses, one it passes on.
CreditAmounts == {0, 6000}
\* Amounts of a reward from the pool: give_reward_from_pool takes any integer.
RewardAmounts == {-1, 6000, 10001}
\* Users rewarded from the pool: a user, and the id of no user.
PoolBeneficiaries == {"u1", "u3"}

\* The steps of the handlers that use the pool, run by session s.
PoolStep(s) ==
    \/ \E c \in Colleges : get_or_create_pool_query(s, "get_pool_balance", c, 0, NoUser)
    \/ \E c \in Colleges, amount \in CreditAmounts :
          get_or_create_pool_query(s, "credit_pool", c, amount, NoUser)
    \/ \E c \in Colleges, amount \in PoolAmounts :
          get_or_create_pool_query(s, "debit_pool", c, amount, NoUser)
    \/ \E c \in Colleges, amount \in RewardAmounts, u \in PoolBeneficiaries :
          get_or_create_pool_query(s, "give_reward_from_pool", c, amount, u)
    \/ get_or_create_pool_insert(s)
    \/ credit_pool(s)
    \/ debit_pool(s)
    \/ give_reward_from_pool_credit(s)

\* Pool requests served by concurrent sessions.
NextPool == \E s \in Sessions : PoolStep(s)
SpecPool == Init /\ [][NextPool]_vars

\* Pool requests served one at a time.
NextPoolSeq == \E s \in SoloSessions : PoolStep(s)
SpecPoolSeq == Init /\ [][NextPoolSeq]_vars

\* Points of a peer reward: none, and enough for one or two purchases.
RewardInputs == {0, 3}
\* Products are created at two points each, with two in stock and two per user.
PriceInputs == {2}
StockInputs == {2}
MaxQuantityInputs == {2}
\* The fields an update_product request sets.
ProductUpdates ==
    {[stock_quantity |-> -1], [status |-> "INACTIVE"]}
\* Quantities of cart requests (CartItemAdd and CartItemUpdate take any integer).
QuantityInputs == {-1, 1, 2}
\* The orders an update_order_status request names: the first, and one after it.
OrderIdInputs == {1, 2}
\* The users who shop, and the products on sale.
Shoppers == {"u1"}
Catalog == {"g1"}

\* Peer rewards, run by session s.
RewardStep(s) ==
    \E giver \in users, receiver \in UserIds, points \in RewardInputs :
        give_reward(s, giver, receiver, points)

\* The steps of the handlers of the store, run by session s.
StoreStep(s) ==
    \/ \E p \in Catalog, price \in PriceInputs, stock \in StockInputs,
          maxq \in MaxQuantityInputs : create_product(s, p, price, stock, maxq)
    \/ \E p \in Catalog, update_data \in ProductUpdates : update_product(s, p, update_data)
    \/ \E u \in Shoppers, p \in Catalog, quantity \in QuantityInputs :
          add_to_cart(s, u, p, quantity)
    \/ \E u \in Shoppers, p \in Catalog, quantity \in QuantityInputs :
          update_cart_item(s, u, p, quantity)
    \/ \E u \in Shoppers, p \in Catalog : remove_from_cart(s, u, p)
    \/ \E u \in Shoppers : clear_cart(s, u)
    \/ \E u \in Shoppers : checkout_query(s, u)
    \/ checkout_commit(s)
    \/ \E order_id \in OrderIdInputs, status \in {"CANCELLED"} :
          update_order_status(s, order_id, status)

\* The peer rewards that fund the shoppers, run by session s.
FundStep(s) ==
    \E giver \in users \ Shoppers, receiver \in Shoppers, points \in RewardInputs :
        give_reward(s, giver, receiver, points)

\* The store and the peer rewards that fund its shoppers, one request at a time.
NextStoreSeq == \E s \in SoloSessions : StoreStep(s) \/ FundStep(s)
SpecStoreSeq == Init /\ [][NextStoreSeq]_vars

\* The life of an order, run by session s: a product, a cart, the checkout and the
\* status updates of the admin, with every status of the enum as input.
OrderStep(s) ==
    \/ \E p \in Catalog, price \in PriceInputs, stock \in StockInputs,
          maxq \in MaxQuantityInputs : create_product(s, p, price, stock, maxq)
    \/ \E u \in Shoppers, p \in Catalog : add_to_cart(s, u, p, 1)
    \/ \E u \in Shoppers : checkout_query(s, u)
    \/ checkout_commit(s)
    \/ \E order_id \in OrderIdInputs, status \in OrderStatus :
          update_order_status(s, order_id, status)

\* Orders and their status updates, one request at a time.
NextOrderSeq == \E s \in SoloSessions : OrderStep(s) \/ FundStep(s)
SpecOrderSeq == Init /\ [][NextOrderSeq]_vars

\* The products of the carts, and the edits of an admin that make a cart stale:
\* less stock than the cart holds, and a product that is no longer ACTIVE.
CartCatalog == {"g1", "g2"}
CartUpdates == {[stock_quantity |-> 1], [status |-> "INACTIVE"]}
\* Quantities of the requests that fill these carts.
CartQuantities == {1, 2}

\* Carts of two products, the edits of the products and the checkout, run by
\* session s.
CartStep(s) ==
    \/ \E p \in CartCatalog, price \in PriceInputs, stock \in StockInputs,
          maxq \in MaxQuantityInputs : create_product(s, p, price, stock, maxq)
    \/ \E p \in CartCatalog, update_data \in CartUpdates :
          update_product(s, p, update_data)
    \/ \E u \in Shoppers, p \in CartCatalog, quantity \in CartQuantities :
          add_to_cart(s, u, p, quantity)
    \/ \E u \in Shoppers : checkout_query(s, u)
    \/ checkout_commit(s)

\* Carts, product edits and checkouts, one request at a time.
NextCartSeq == \E s \in SoloSessions : CartStep(s) \/ FundStep(s)
SpecCartSeq == Init /\ [][NextCartSeq]_vars

\* Two users who fill their carts and check out, run by session s; no product is
\* edited after its creation.
CheckoutStep(s) ==
    \/ \E p \in Catalog, price \in PriceInputs, stock \in StockInputs,
          maxq \in MaxQuantityInputs : create_product(s, p, price, stock, maxq)
    \/ \E u \in users, p \in Catalog, quantity \in CartQuantities :
          add_to_cart(s, u, p, quantity)
    \/ \E u \in users : checkout_query(s, u)
    \/ checkout_commit(s)

\* Checkouts and the peer rewards that fund them, served by concurrent sessions.
NextCheckout == \E s \in Sessions : CheckoutStep(s) \/ RewardStep(s)
SpecCheckout == Init /\ [][NextCheckout]_vars

\* The edit of an admin that changes the price of a product.
PriceUpdates == {[points_required |-> 1]}

\* Carts of two products, the edits of their prices and the checkout, run by
\* session s.
PriceStep(s) ==
    \/ \E p \in CartCatalog, price \in PriceInputs, stock \in StockInputs,
          maxq \in MaxQuantityInputs : create_product(s, p, price, stock, maxq)
    \/ \E p \in CartCatalog, update_data \in PriceUpdates :
          update_product(s, p, update_data)
    \/ \E u \in Shoppers, p \in CartCatalog, quantity \in CartQuantities :
          add_to_cart(s, u, p, quantity)
    \/ \E u \in Shoppers : checkout_query(s, u)
    \/ checkout_commit(s)

\* Carts, price edits and checkouts, one request at a time.
NextPriceSeq == \E s \in SoloSessions : PriceStep(s) \/ FundStep(s)
SpecPriceSeq == Init /\ [][NextPriceSeq]_vars

\* The steps of toggle_ignite, run by session s.
IgniteStep(s) ==
    \/ \E p \in PostIds \cup {3}, u \in users : toggle_ignite_query(s, p, u)
    \/ toggle_ignite_ignite(s)
    \/ toggle_ignite_unignite(s)

\* Ignites and the peer rewards that fund them, one request at a time.
NextIgniteSeq == \E s \in SoloSessions : IgniteStep(s) \/ RewardStep(s)
SpecIgniteSeq == Init /\ [][NextIgniteSeq]_vars

\* Ignites and the peer rewards that fund them, served by concurrent sessions.
NextIgnite == \E s \in Sessions : IgniteStep(s) \/ RewardStep(s)
SpecIgnite == Init /\ [][NextIgnite]_vars

\* Deleted users and the force flag of delete_user.
DeleteInputs == UserIds \X BOOLEAN

\* delete_user, run by session s.
AdminStep(s) ==
    \E d \in DeleteInputs : delete_user(s, d[1], d[2])

\* Ignites, peer rewards and the deletion of users, one request at a time.
NextAdminSeq == \E s \in SoloSessions : IgniteStep(s) \/ RewardStep(s) \/ AdminStep(s)
SpecAdminSeq == Init /\ [][NextAdminSeq]_vars

(***************************************************************************)
(* Claims about the ledgers                                                *)
(***************************************************************************)

\* The points of the PointTransaction rows of user u, in the order written.
LedgerPoints(u) ==
    LET own == SelectSeq(point_transactions, LAMBDA t : t.user_id = u) IN
    [i \in 1..Len(own) |-> own[i].points]

\* C1 (as claimed): ledger reconciliation.  In every state each RewardPoint row of a
\* user holds the sum of the points of that user's PointTransaction rows.
C1_LedgerReconciles ==
    \A u \in UserIds : \A row \in 1..Len(reward_points[u]) :
        reward_points[u][row] = SumSeq(LedgerPoints(u))

\* C4 (as claimed): user balance non-negativity.  No RewardPoint row holds
\* total_points < 0, whatever calls are made.
C4_UserBalanceNonNegative ==
    \A u \in UserIds : \A row \in 1..Len(reward_points[u]) :
        reward_points[u][row] >= 0

\* C9 (as claimed): append-only ledgers.  Every step leaves the PointTransaction and
\* PoolTransaction rows already written in place and unchanged, and only adds rows
\* after them.
C9_LedgersAppendOnly ==
    [][/\ Len(point_transactions') >= Len(point_transactions)
       /\ SubSeq(point_transactions', 1, Len(point_transactions)) = point_transactions
       /\ Len(pool_transactions') >= Len(pool_transactions)
       /\ SubSeq(pool_transactions', 1, Len(pool_transactions)) = pool_transactions
      ]_vars

(***************************************************************************)
(* Claims about the reward pool                                            *)
(***************************************************************************)

RECURSIVE PoolLedgerNet(_)
\* Credits minus debits of a sequence of PoolTransaction rows.
PoolLedgerNet(txns) ==
    IF txns = <<>> THEN 0
    ELSE (IF Head(txns).transaction_type = "CREDIT" THEN Head(txns).amount
          ELSE 0 - Head(txns).amount) + PoolLedgerNet(Tail(txns))

IsPoolDebitFor(u, t) == t.transaction_type = "DEBIT" /\ t.beneficiary_user_id = u
IsPoolRewardOf(u, t) ==
    t.user_id = u /\ t.transaction_type = "EARNED" /\ t.reference_type = "reward"

\* The pool DEBIT rows naming user u as beneficiary.
PoolDebitsFor(u) == SelectSeq(pool_transactions, LAMBDA t : IsPoolDebitFor(u, t))
\* The EARNED rows of user u written by give_reward_from_pool.
PoolRewardsOf(u) == SelectSeq(point_transactions, LAMBDA t : IsPoolRewardOf(u, t))

\* C2 (as claimed): pool debit exactness.  In every committed state each DEBIT row
\* written for a beneficiary is matched by one EARNED row of that user: a reward
\* from the pool has debited the pool and credited the user, or done neither, and
\* no state with the pool debited and the user not yet credited is committed.
C2_PoolDebitExact ==
    \A u \in UserIds : Len(PoolDebitsFor(u)) = Len(PoolRewardsOf(u))

\* C3 (as claimed): same-entity linearization, for the pool.  Requests run one after
\* the other leave the pool's balance equal to the credits minus the debits of its
\* ledger rows, so every interleaving must leave it so too.
C3_PoolLinearizable ==
    \A c \in DOMAIN pools :
        pools[c].total_balance = PoolLedgerNet(pool_transactions)

\* C15: pool credit effect.  A credit_pool call with amount > 0 (and within the
\* caller's cap) always succeeds; it raises the pool's total_balance by exactly
\* amount and records exactly one PoolTransaction, a CREDIT of that amount whose
\* balance_before is the total_balance before the credit and whose balance_after is
\* the total_balance after it.
C15_PoolCreditEffect ==
    [][\A s \in Sessions :
          ( /\ pc[s] \in {"create_pool", "pool_loaded"}
            /\ local[s].op = "credit_pool"
            /\ pc'[s] = "idle" ) =>
              LET c == local[s].college_id
                  amount == local[s].amount IN
              /\ amount > 0
              /\ last' = Response("credit_pool", "ok")
              /\ c \in DOMAIN pools
              /\ pools'[c].total_balance = pools[c].total_balance + amount
              /\ Len(pool_transactions') = Len(pool_transactions) + 1
              /\ SubSeq(pool_transactions', 1, Len(pool_transactions))
                     = pool_transactions
              /\ LET txn == pool_transactions'[Len(pool_transactions')] IN
                     /\ txn.college_id = c
                     /\ txn.transaction_type = "CREDIT"
                     /\ txn.amount = amount
                     /\ txn.balance_before = pools[c].total_balance
                     /\ txn.balance_after = pools'[c].total_balance
      ]_vars

\* C15 witness: a credit of 6000 has succeeded on a pool that held less than its
\* initial allocation.
C15_Witness ==
    /\ last = Response("credit_pool", "ok")
    /\ Len(pool_transactions) >= 3
    /\ pool_transactions[Len(pool_transactions)].transaction_type = "CREDIT"
    /\ pool_transactions[Len(pool_transactions)].balance_before < 10000
    /\ \E c \in DOMAIN pools :
          pools[c].total_balance = pool_transactions[Len(pool_transactions)].balance_after

\* The bootstrap rows of college c in a pool ledger; each is committed together
\* with the INSERT of a CollegeRewardPool row of c, and pools are never deleted.
Bootstraps(txns, c) == SelectSeq(txns, LAMBDA t : t = InitialCredit(c))

\* C16: one pool per college.  Under sequential and concurrent calls of
\* get_or_create_pool (on its own or from credit_pool, debit_pool and
\* give_reward_from_pool) a college has no pool row and no bootstrap transaction,
\* or one pool row and exactly one bootstrap (CREDIT 10000, 0 -> 10000); and a call
\* that finds the pool takes it as it is, changing no balance and writing no
\* transaction.
C16_OnePoolPerCollege ==
    [][ /\ \A c \in Colleges :
              Len(Bootstraps(pool_transactions', c))
                  = IF c \in DOMAIN pools' THEN 1 ELSE 0
        /\ \A s \in Sessions :
              (pc[s] = "idle" /\ pc'[s] = "pool_loaded") =>
                  /\ UNCHANGED <<pools, pool_transactions>>
                  /\ local'[s].pool = pools[local'[s].college_id]
                  /\ ~local'[s].created
      ]_vars

\* C16 witness: a call that saw no pool lost the race to create it, and the pool
\* and its one bootstrap are there.
C16_Witness ==
    /\ last.op \in {"get_pool_balance", "credit_pool", "debit_pool"}
    /\ last.result = "error"
    /\ \A c \in Colleges :
          c \in DOMAIN pools /\ Len(Bootstraps(pool_transactions, c)) = 1

RECURSIVE PoolLedgerTotal(_, _, _)
\* The sum of the amounts of the PoolTransaction rows of college c of one type.
PoolLedgerTotal(txns, c, type) ==
    IF txns = <<>> THEN 0
    ELSE (IF Head(txns).college_id = c /\ Head(txns).transaction_type = type
          THEN Head(txns).amount ELSE 0) + PoolLedgerTotal(Tail(txns), c, type)

\* C18 (as claimed): lifetime counters.  In every state lifetime_credits of a pool is
\* the sum of the amounts of its CREDIT PoolTransaction rows, the bootstrap included,
\* and lifetime_debits is the sum of the amounts of its DEBIT PoolTransaction rows.
C18_LifetimeCounters ==
    \A c \in DOMAIN pools :
        /\ pools[c].lifetime_credits = PoolLedgerTotal(pool_transactions, c, "CREDIT")
        /\ pools[c].lifetime_debits = PoolLedgerTotal(pool_transactions, c, "DEBIT")

\* C25 (as claimed): positive pool amounts.  Every PoolTransaction row has
\* amount > 0, and a step of credit_pool, debit_pool or give_reward_from_pool called
\* with amount <= 0 writes no transaction and changes no pool or user balance.
C25_PositivePoolAmounts ==
    [][ /\ \A i \in 1..Len(pool_transactions') : pool_transactions'[i].amount > 0
        /\ \A s \in Sessions :
              ( /\ pc[s] = "pool_loaded"
                /\ local[s].op \in {"credit_pool", "debit_pool", "give_reward_from_pool"}
                /\ local[s].amount <= 0 ) =>
                  UNCHANGED <<pools, pool_transactions, reward_points, point_transactions>>
      ]_vars

\* The PoolTransaction rows of college c, in the order written.
PoolLedgerOf(c) == SelectSeq(pool_transactions, LAMBDA t : t.college_id = c)

\* C30 (as claimed): pool ledger chain.  In every state and for every college, each
\* PoolTransaction has balance_after = balance_before + amount (CREDIT) or
\* balance_before - amount (DEBIT); the first is the bootstrap 0 -> 10000 and each
\* later one starts at the balance_after of the one before it; and the pool's
\* total_balance is the balance_after of the latest; concurrent credit_pool and
\* debit_pool calls on one college included.
C30_PoolLedgerChain ==
    \A c \in Colleges :
        LET ledger == PoolLedgerOf(c) IN
        /\ \A i \in 1..Len(ledger) :
              /\ ledger[i].balance_after =
                     IF ledger[i].transaction_type = "CREDIT"
                     THEN ledger[i].balance_before + ledger[i].amount
                     ELSE ledger[i].balance_before - ledger[i].amount
              /\ ledger[i].balance_before =
                     IF i = 1 THEN 0 ELSE ledger[i - 1].balance_after
        /\ ledger # <<>> => ledger[1] = InitialCredit(c)
        /\ c \in DOMAIN pools =>
              /\ ledger # <<>>
              /\ pools[c].total_balance = ledger[Len(ledger)].balance_after

\* C6: pool non-negativity.  No pool row has total_balance < 0 or
\* total_balance - reserved_balance < 0, under every interleaving of
\* get_or_create_pool, credit_pool, debit_pool and give_reward_from_pool.
C6_PoolNonNegative ==
    \A c \in DOMAIN pools :
        /\ pools[c].total_balance >= 0
        /\ pools[c].total_balance - pools[c].reserved_balance >= 0

\* C6 witness: two debits that read the same balance have both committed.
C6_Witness ==
    /\ \E i, j \in 1..Len(pool_transactions) :
          /\ i < j
          /\ pool_transactions[i].transaction_type = "DEBIT"
          /\ pool_transactions[j].transaction_type = "DEBIT"
          /\ pool_transactions[i].balance_before = pool_transactions[j].balance_before
    /\ \A s \in Sessions : pc[s] = "idle"

\* Session s stands before debit_pool's balance check with less in the pool row it
\* read than the amount asked for.
ShortOfFunds(s) ==
    /\ pc[s] = "pool_loaded"
    /\ local[s].op \in {"debit_pool", "give_reward_from_pool"}
    /\ local[s].pool.total_balance - local[s].pool.reserved_balance < local[s].amount

\* C10 (as claimed): whether or not the pool row existed before the call, a
\* debit_pool or give_reward_from_pool call for more than the available balance
\* fails with the insufficient-pool-balance error and has written no
\* PoolTransaction or PointTransaction and changed no pool or user balance.
C10_NothingWrittenByCall ==
    [][\A s \in Sessions :
          (ShortOfFunds(s) /\ pc'[s] = "idle") =>
              /\ last' = Response(local[s].op, "insufficient_pool_balance")
              /\ ~local[s].created
              /\ UNCHANGED <<pools, pool_transactions, reward_points, point_transactions>>
      ]_vars

\* C10 (amended): a debit_pool or give_reward_from_pool call whose pool row, as read
\* or just created by get_or_create_pool, has less available than the amount fails
\* with the insufficient-pool-balance error; the failing step writes no row and
\* changes no balance, and all the call has written is the pool row and its initial
\* CREDIT when the pool did not exist.
C10_InsufficientPoolFunds ==
    [][\A s \in Sessions :
          (ShortOfFunds(s) /\ pc'[s] = "idle") =>
              /\ last' = Response(local[s].op, "insufficient_pool_balance")
              /\ UNCHANGED <<pools, pool_transactions, reward_points, point_transactions>>
              /\ local[s].created =>
                    \E i \in 1..Len(pool_transactions) :
                        pool_transactions[i] = InitialCredit(local[s].college_id)
      ]_vars

\* C10 witness: a reward from a pool that existed, and had been debited to less than
\* the amount, was refused.
C10_Witness ==
    /\ last.op = "give_reward_from_pool"
    /\ last.result = "insufficient_pool_balance"
    /\ \E c \in DOMAIN pools : 0 < pools[c].total_balance /\ pools[c].total_balance < 6000

(***************************************************************************)
(* Claims about the store                                                  *)
(***************************************************************************)

\* C5 (as claimed): stock non-negativity.  No Product row has stock_quantity < 0,
\* whatever checkout, the cart handlers, create_product and update_product do.
C5_StockNonNegative ==
    \A p \in DOMAIN products : products[p].stock_quantity >= 0

\* C7: checkout atomicity on failure.  A checkout that returns an error (no cart,
\* empty cart, a product missing or not ACTIVE, insufficient stock, insufficient
\* points) leaves the cart items, every product's stock, the user's points and the
\* Order, OrderItem and PointTransaction rows as they were.
C7_CheckoutFailureAtomic ==
    [][(last'.op = "checkout" /\ last'.result # "ok") =>
          UNCHANGED <<carts, products, reward_points, orders, point_transactions>>
      ]_vars

\* C7 witness: a checkout of a cart with items was refused for lack of points.
C7_Witness ==
    /\ last.op = "checkout"
    /\ last.result = "insufficient_points"
    /\ \E u \in DOMAIN carts : DOMAIN carts[u] # {}

RECURSIVE CartCost(_, _)
\* The price of the cart items of the products ps at the products' current
\* points_required.
CartCost(cart, ps) ==
    IF ps = {} THEN 0
    ELSE LET p == CHOOSE q \in ps : TRUE IN
         products[p].points_required * cart[p] + CartCost(cart, ps \ {p})

\* C14: successful checkout effect.  The commit of a checkout that succeeds creates
\* exactly one Order, PENDING, with one OrderItem per cart item; lowers the stock of
\* each purchased product by the cart quantity; lowers the user's total_points by
\* total_points = the sum of points_required x quantity; appends exactly one SPENT
\* PointTransaction with points = -total_points; and leaves the cart without items.
C14_CheckoutEffect ==
    [][\A s \in Sessions :
          (pc[s] = "checkout_commit" /\ pc'[s] = "idle" /\ last'.result = "ok") =>
              LET u == local[s].user_id
                  cart == carts[u]
                  total == CartCost(cart, DOMAIN cart)
                  n == Len(orders)
                  m == Len(point_transactions) IN
              /\ Len(orders') = n + 1
              /\ SubSeq(orders', 1, n) = orders
              /\ orders'[n + 1].user_id = u
              /\ orders'[n + 1].status = "PENDING"
              /\ orders'[n + 1].total_points = total
              /\ DOMAIN orders'[n + 1].items = DOMAIN cart
              /\ \A p \in DOMAIN cart : orders'[n + 1].items[p].quantity = cart[p]
              /\ DOMAIN products' = DOMAIN products
              /\ \A p \in DOMAIN products :
                     products'[p].stock_quantity =
                         IF p \in DOMAIN cart
                         THEN products[p].stock_quantity - cart[p]
                         ELSE products[p].stock_quantity
              /\ reward_points'[u][1] = reward_points[u][1] - total
              /\ point_transactions' = Append(point_transactions,
                     PointTransaction(u, "SPENT", 0 - total, reward_points'[u][1],
                                      "order", n + 1))
              /\ Len(point_transactions') = m + 1
              /\ DOMAIN carts'[u] = {}
      ]_vars

\* C14 witness: a checkout of a priced cart has succeeded; the order is PENDING,
\* the stock is lower than it was created with and the cart is empty.
C14_Witness ==
    /\ last.op = "checkout"
    /\ last.result = "ok"
    /\ Len(orders) = 1
    /\ orders[1].status = "PENDING"
    /\ orders[1].total_points > 0
    /\ \E p \in DOMAIN products : products[p].stock_quantity < 2
    /\ \A u \in DOMAIN carts : DOMAIN carts[u] = {}

\* The products in the cart of user u that checkout would refuse: gone, not ACTIVE,
\* or with less stock than the cart's quantity.
StaleItems(u) ==
    IF u \notin DOMAIN carts THEN {}
    ELSE {p \in DOMAIN carts[u] :
             \/ p \notin DOMAIN products
             \/ products[p].status # "ACTIVE"
             \/ products[p].stock_quantity < carts[u][p]}

\* C22: checkout re-validation of stale carts.  A checkout goes on to create its
\* order only if every item of the cart is of an ACTIVE product with
\* stock_quantity >= the cart quantity at that time; a checkout of a cart with an
\* item whose product has since lost stock or is no longer ACTIVE fails with the
\* error of such a product, naming it, and creates no Order and changes no stock,
\* balance, ledger or cart.
C22_CheckoutRevalidates ==
    [][ /\ \A s \in Sessions :
              /\ (pc[s] = "idle" /\ pc'[s] = "checkout_commit") =>
                     StaleItems(local'[s].user_id) = {}
              /\ (pc[s] = "checkout_commit" /\ pc'[s] = "idle"
                     /\ last'.result = "ok") =>
                     StaleItems(local[s].user_id) = {}
        /\ ( /\ pc' = pc
             /\ last'.op = "checkout"
             /\ last' # last
             /\ StaleItems(last'.detail.user_id) # {} ) =>
               /\ last'.result \in {"product_not_found", "product_unavailable",
                                    "insufficient_stock"}
               /\ last'.detail.product_id \in StaleItems(last'.detail.user_id)
               /\ UNCHANGED <<orders, products, carts, reward_points,
                              point_transactions>>
      ]_vars

\* C22 witness: a checkout of a cart of two products has just been refused for one
\* of them that an edit made unavailable, the other being in order; no order exists.
C22_Witness ==
    /\ last.op = "checkout"
    /\ last.result = "product_unavailable"
    /\ DOMAIN carts[last.detail.user_id] = CartCatalog
    /\ StaleItems(last.detail.user_id) = {last.detail.product_id}
    /\ orders = <<>>

\* The quantity of product p in the cart of user u in the table cs; 0 without an item.
CartQuantity(cs, u, p) ==
    IF u \in DOMAIN cs /\ p \in DOMAIN cs[u] THEN cs[u][p] ELSE 0

\* The smaller of two integers.
Min(a, b) == IF a < b THEN a ELSE b

\* C23: add-to-cart bound.  An add_to_cart that succeeds has put into the cart of
\* one user, for one ACTIVE product, a quantity <= min(stock_quantity,
\* max_quantity_per_user - quantity already in the cart), so that the cart's
\* quantity of the product is <= min(stock_quantity, max_quantity_per_user), and has
\* touched no other item; an add_to_cart that is refused leaves every cart item as
\* it was; and neither changes a stock_quantity, a balance or a ledger.
C23_AddToCartBound ==
    [][(last'.op = "add_to_cart" /\ (last' # last \/ carts' # carts)) =>
          /\ UNCHANGED <<products, reward_points, point_transactions, orders>>
          /\ IF last'.result = "ok"
             THEN \E u \in DOMAIN carts', p \in DOMAIN products :
                    LET before == CartQuantity(carts, u, p)
                        quantity == CartQuantity(carts', u, p) - before IN
                    /\ products[p].status = "ACTIVE"
                    /\ p \in DOMAIN carts'[u]
                    /\ quantity <= Min(products[p].stock_quantity,
                                       products[p].max_quantity_per_user - before)
                    /\ carts'[u][p] <= Min(products[p].stock_quantity,
                                           products[p].max_quantity_per_user)
                    /\ \A v \in DOMAIN carts' : \A q \in DOMAIN carts'[v] :
                          (v # u \/ q # p) =>
                              /\ v \in DOMAIN carts /\ q \in DOMAIN carts[v]
                              /\ carts'[v][q] = carts[v][q]
             ELSE \A v \in UserIds, q \in CartCatalog :
                    CartQuantity(carts', v, q) = CartQuantity(carts, v, q)
      ]_vars

\* C23 witness: an add_to_cart of a product of whose stock (1) and allowed quantity
\* (2) the cart holds what the stock allows has just been refused, and the cart
\* holds the other product as well.
C23_Witness ==
    /\ last.op = "add_to_cart"
    /\ last.result = "insufficient_stock"
    /\ \E u \in DOMAIN carts :
          /\ DOMAIN carts[u] = CartCatalog
          /\ \E p \in CartCatalog :
                products[p].stock_quantity = 1 /\ carts[u][p] = 1

\* The status that follows a status on the way of an order to its completion.
StatusAfter == [PENDING |-> "CONFIRMED", CONFIRMED |-> "PROCESSING",
                PROCESSING |-> "READY_FOR_PICKUP", READY_FOR_PICKUP |-> "COMPLETED"]

\* The statuses an order does not leave.
TerminalStatus == {"COMPLETED", "CANCELLED", "REFUNDED"}

\* C17 (as claimed): order status state machine.  An order is created in PENDING;
\* a step changes the status of an order only to the next status on
\* PENDING -> CONFIRMED -> PROCESSING -> READY_FOR_PICKUP -> COMPLETED, or from a
\* status that is not terminal to CANCELLED or REFUNDED; the status of a
\* COMPLETED, CANCELLED or REFUNDED order never changes.
C17_OrderStatusMachine ==
    [][ /\ Len(orders') >= Len(orders)
        /\ \A i \in 1..Len(orders') :
              IF i > Len(orders)
              THEN orders'[i].status = "PENDING"
              ELSE \/ orders'[i].status = orders[i].status
                   \/ /\ orders[i].status \notin TerminalStatus
                      /\ \/ orders'[i].status = StatusAfter[orders[i].status]
                         \/ orders'[i].status \in {"CANCELLED", "REFUNDED"}
      ]_vars

\* The balance of user u in the table rp: the RewardPoint row's total_points, and 0
\* for a user without a row.
TotalPoints(rp, u) == IF rp[u] = <<>> THEN 0 ELSE rp[u][1]

\* C24 (as claimed): refund on cancellation.  A step that changes the status of an
\* order to CANCELLED or REFUNDED appends, in the same step, a REFUNDED
\* PointTransaction of the order's total_points for the ordering user, raises that
\* user's balance by as much, and raises the stock_quantity of every ordered product
\* by the ordered quantity.
C24_RefundOnCancellation ==
    [][\A i \in 1..Len(orders) :
          ( /\ orders'[i].status \in {"CANCELLED", "REFUNDED"}
            /\ orders'[i].status # orders[i].status ) =>
              LET o == orders[i]
                  n == Len(point_transactions) IN
              /\ Len(point_transactions') = n + 1
              /\ point_transactions'[n + 1].user_id = o.user_id
              /\ point_transactions'[n + 1].transaction_type = "REFUNDED"
              /\ point_transactions'[n + 1].points = o.total_points
              /\ TotalPoints(reward_points', o.user_id)
                     = TotalPoints(reward_points, o.user_id) + o.total_points
              /\ \A p \in DOMAIN o.items :
                     products'[p].stock_quantity
                         = products[p].stock_quantity + o.items[p].quantity
      ]_vars

\* C27 (as claimed): positive cart quantities.  Whatever integer quantities
\* add_to_cart and update_cart_item are asked for, every CartItem holds
\* quantity >= 1 in every state; and so a checkout that succeeds has
\* total_points > 0, lowers the user's balance and raises the stock_quantity of no
\* product.
C27_PositiveCartQuantities ==
    [][ /\ \A u \in DOMAIN carts' : \A p \in DOMAIN carts'[u] : carts'[u][p] >= 1
        /\ \A s \in Sessions :
              (pc[s] = "checkout_commit" /\ pc'[s] = "idle" /\ last'.result = "ok") =>
                  /\ orders'[Len(orders')].total_points > 0
                  /\ TotalPoints(reward_points', local[s].user_id)
                         < TotalPoints(reward_points, local[s].user_id)
                  /\ \A p \in DOMAIN products :
                         products'[p].stock_quantity <= products[p].stock_quantity
      ]_vars

RECURSIVE Sold(_, _)
\* The quantity of product p in the OrderItems of the orders os.
Sold(os, p) ==
    IF os = <<>> THEN 0
    ELSE (IF p \in DOMAIN Head(os).items THEN Head(os).items[p].quantity ELSE 0)
         + Sold(Tail(os), p)

\* C28 (as claimed): no oversell.  Without edits of the stock, every step keeps
\* stock_quantity + the quantity of the product in all OrderItems at the stock the
\* product was created with, and no stock_quantity is below 0, so that the quantity
\* sold never exceeds the stock that existed; concurrent checkouts of one product
\* by two users included.
C28_NoOversell ==
    [][\A p \in DOMAIN products :
          /\ products'[p].stock_quantity + Sold(orders', p)
                 = products[p].stock_quantity + Sold(orders, p)
          /\ products'[p].stock_quantity >= 0
      ]_vars

RECURSIVE ItemsTotal(_, _)
\* The sum of total_points over the OrderItems items of the products ps.
ItemsTotal(items, ps) ==
    IF ps = {} THEN 0
    ELSE LET p == CHOOSE q \in ps : TRUE IN
         items[p].total_points + ItemsTotal(items, ps \ {p})

\* C29: order arithmetic consistency.  Every OrderItem has
\* total_points = quantity x points_per_item, every Order has total_points = the sum
\* over its OrderItems and total_items = their number; the checkout that creates an
\* order takes points_per_item from the product's points_required at that time and
\* logs a SPENT row with points = -total_points and balance_after = the balance
\* before - total_points; and no later step, update_product included, changes
\* what an order and its items store.
C29_OrderArithmetic ==
    [][ /\ \A i \in 1..Len(orders') :
              LET o == orders'[i] IN
              /\ \A p \in DOMAIN o.items :
                     o.items[p].total_points
                         = o.items[p].quantity * o.items[p].points_per_item
              /\ o.total_points = ItemsTotal(o.items, DOMAIN o.items)
              /\ o.total_items = Cardinality(DOMAIN o.items)
        /\ \A i \in 1..Len(orders) :
              /\ i <= Len(orders')
              /\ orders'[i].items = orders[i].items
              /\ orders'[i].total_points = orders[i].total_points
              /\ orders'[i].total_items = orders[i].total_items
        /\ \A s \in Sessions :
              (pc[s] = "checkout_commit" /\ pc'[s] = "idle" /\ last'.result = "ok") =>
                  LET o == orders'[Len(orders')]
                      u == local[s].user_id
                      t == point_transactions'[Len(point_transactions')] IN
                  /\ Len(orders') = Len(orders) + 1
                  /\ \A p \in DOMAIN o.items :
                         o.items[p].points_per_item = products[p].points_required
                  /\ Len(point_transactions') = Len(point_transactions) + 1
                  /\ t = PointTransaction(u, "SPENT", 0 - o.total_points,
                             TotalPoints(reward_points, u) - o.total_points,
                             "order", Len(orders'))
      ]_vars

\* C29 witness: an order of two units bought at 2 points each stores 4 points, and
\* the product's price has been edited since.
C29_Witness ==
    /\ last.op = "update_product"
    /\ \E i \in 1..Len(orders) : \E p \in DOMAIN orders[i].items :
          /\ orders[i].items[p].quantity = 2
          /\ orders[i].items[p].points_per_item = 2
          /\ orders[i].total_points >= 4
          /\ products[p].points_required = 1

(***************************************************************************)
(* Claims about the ignite toggle                                          *)
(***************************************************************************)

\* A toggle_ignite request finishes in this step: a session leaves one of its
\* commits, or the response is a new one.
ToggleFinishes ==
    /\ last'.op = "toggle_ignite"
    /\ \/ last' # last
       \/ \E s \in Sessions :
             pc[s] \in {"ignite_commit", "unignite_commit"} /\ pc'[s] = "idle"

\* The PostIgnite rows of giver u on post p.
IgniteRows(rows, p, u) == {r \in rows : r.post_id = p /\ r.giver_id = u}

IgniteTxns(us, type, p) ==
    Len(SelectSeq(point_transactions,
                  LAMBDA t : /\ t.user_id \in us
                             /\ t.transaction_type = type
                             /\ t.reference_type = "ignite"
                             /\ t.reference_id = p))

\* C20 (as claimed): ignite row / ledger consistency.  In every state and for every
\* post p and giver u, the SPENT rows of u for the ignite of p outnumber u's REFUNDED
\* rows for it by one when a PostIgnite row of u on p exists and equal them when
\* none exists; and the EARNED rows for the ignite of p outnumber the DEDUCTED rows
\* for it by one for every giver that has a row on p.
C20_IgniteLedgerConsistent ==
    \A p \in DOMAIN posts :
        /\ \A u \in UserIds :
              IgniteTxns({u}, "SPENT", p) - IgniteTxns({u}, "REFUNDED", p)
                  = IF IgniteRows(post_ignites, p, u) # {} THEN 1 ELSE 0
        /\ IgniteTxns(UserIds, "EARNED", p) - IgniteTxns(UserIds, "DEDUCTED", p)
              = Cardinality({u \in UserIds : IgniteRows(post_ignites, p, u) # {}})

\* C21 (as claimed): PostIgnite uniqueness.  In every state there is at most one
\* PostIgnite row per post and giver, also when two toggle_ignite requests of one
\* user on one post both read "no row" before either commits.
C21_PostIgniteUnique ==
    \A p \in DOMAIN posts : \A u \in UserIds :
        Cardinality(IgniteRows(post_ignites, p, u)) <= 1

RECURSIVE AllPoints(_, _)
\* The sum of total_points over the RewardPoint rows of the users us in the table rp.
AllPoints(rp, us) ==
    IF us = {} THEN 0
    ELSE LET u == CHOOSE v \in us : TRUE IN
         SumSeq(rp[u]) + AllPoints(rp, us \ {u})

\* C26 (as claimed): ignite conserves points.  A toggle_ignite that ignites or
\* un-ignites leaves the sum of total_points over all users as it was, so that no
\* sequence of toggles creates or destroys a point.
C26_IgniteConservesPoints ==
    [][(ToggleFinishes /\ last'.result \in {"ignited", "removed"}) =>
          AllPoints(reward_points', UserIds) = AllPoints(reward_points, UserIds)
      ]_vars

\* C12: ignite with insufficient points.  A toggle_ignite by a user who is not the
\* post's author, has no PostIgnite row on the post and holds less than 1 point
\* (or has no RewardPoint row) fails with the insufficient-points error, and no
\* PointTransaction or PostIgnite row is created and no balance and no ignite_count
\* changes.
C12_IgniteInsufficientPoints ==
    [][ ( /\ ToggleFinishes
            /\ last'.detail.post_id \in DOMAIN posts
            /\ posts[last'.detail.post_id].author_id # last'.detail.user_id
            /\ IgniteRows(post_ignites, last'.detail.post_id, last'.detail.user_id) = {}
            /\ TotalPoints(reward_points, last'.detail.user_id) < 1 ) =>
              /\ last'.result = "insufficient_points"
              /\ UNCHANGED <<posts, reward_points, point_transactions, post_ignites>>
      ]_vars

\* C13: self-ignite rejection.  toggle_ignite(p, u) by the author u of p fails with
\* the self-ignite error whatever u's balance is and changes no balance, PostIgnite
\* row, PointTransaction or ignite_count; and no PostIgnite row has its post's
\* author as giver.
C13_SelfIgniteRejected ==
    [][ /\ ( /\ ToggleFinishes
              /\ last'.detail.post_id \in DOMAIN posts
              /\ posts[last'.detail.post_id].author_id = last'.detail.user_id ) =>
                /\ last'.result = "self_ignite"
                /\ UNCHANGED <<posts, reward_points, point_transactions, post_ignites>>
        /\ \A r \in post_ignites' : posts'[r.post_id].author_id # r.giver_id
      ]_vars

\* C13 witness: an author holding points was refused on the own post, while
\* another post carries an ignite.
C13_Witness ==
    /\ last.op = "toggle_ignite"
    /\ last.result = "self_ignite"
    /\ TotalPoints(reward_points, last.detail.user_id) > 0
    /\ post_ignites # {}

\* C12 witness: a user without a point was refused; the other user holds points.
C12_Witness ==
    /\ last.op = "toggle_ignite"
    /\ last.result = "insufficient_points"
    /\ TotalPoints(reward_points, last.detail.user_id) = 0
    /\ \E u \in users : TotalPoints(reward_points, u) > 0

\* C8: ignite round-trip.  When toggle_ignite(p, u) has returned "ignited" and the
\* very next request, toggle_ignite(p, u) again, returns "removed", the giver's
\* total_points, the author's total_points and the post's ignite_count are what the
\* first call read before it changed them.
C8_IgniteRoundTrip ==
    [][\A s \in Sessions :
          ( /\ pc[s] = "unignite_commit"
            /\ pc'[s] = "idle"
            /\ last'.result = "removed"
            /\ last.op = "toggle_ignite"
            /\ last.result = "ignited"
            /\ last.detail.post_id = local[s].post_id
            /\ last.detail.user_id = local[s].user_id ) =>
              /\ reward_points'[local[s].user_id][local[s].row] = last.detail.total_points
              /\ reward_points'[local[s].author_id][local[s].author_row]
                     = last.detail.author_points
              /\ posts'[local[s].post_id].ignite_count = last.detail.ignite_count
      ]_vars

\* C8 witness: the ledger ends with an ignite and its removal, one right after the
\* other, by the same giver on the same post.
C8_Witness ==
    /\ last.op = "toggle_ignite"
    /\ last.result = "removed"
    /\ Len(point_transactions) = 4
    /\ point_transactions[1].transaction_type = "SPENT"
    /\ point_transactions[2].transaction_type = "EARNED"
    /\ point_transactions[3].transaction_type = "REFUNDED"
    /\ point_transactions[4].transaction_type = "DEDUCTED"
    /\ point_transactions[3].user_id = point_transactions[1].user_id
    /\ point_transactions[3].reference_id = point_transactions[1].reference_id
    /\ point_transactions[3].balance_after = point_transactions[1].balance_after + 1
    /\ point_transactions[4].balance_after = point_transactions[2].balance_after - 1

====
